---- MODULE Spec2Model ----
(***************************************************************************)
(* Joint orientation of tpDcc-dccs-maya (tpDcc/dccs/maya/core/joint.py):   *)
(* OrientJointAttributes (the per-joint configuration and the batch walk)  *)
(* and OrientJoint (freeze, pin, resolve targets, aim, cleanup, freeze).   *)
(*                                                                         *)
(* The scene is a forest of DAG nodes with a world position and a world    *)
(* rotation.  Positions are integer vectors.  A rotation is the pair of    *)
(* the directions its local +X and +Y axes point to, each an integer       *)
(* vector reduced by the gcd of its components (a direction class), so     *)
(* that equal rotations have equal values.                                 *)
(***************************************************************************)
EXTENDS Integers, Sequences, FiniteSets, TLC

\* Number of DAG nodes of the scene (nodes are 1..NumNodes).
NumNodes == 3
\* How many times run() is called on the joint of a scene.
MaxRuns == 2

Nodes == 1..NumNodes
\* "No node": the world as a parent, None as a relative or as a target.
NoNode == 0

----------------------------------------------------------------------------
(* Integer vectors and direction classes *)

Vec3(x, y, z) == <<x, y, z>>
Zero3 == <<0, 0, 0>>
VAdd(a, b) == <<a[1] + b[1], a[2] + b[2], a[3] + b[3]>>
VSub(a, b) == <<a[1] - b[1], a[2] - b[2], a[3] - b[3]>>
VScale(k, a) == <<k * a[1], k * a[2], k * a[3]>>
VDot(a, b) == a[1] * b[1] + a[2] * b[2] + a[3] * b[3]
VCross(a, b) ==
    <<a[2] * b[3] - a[3] * b[2], a[3] * b[1] - a[1] * b[3], a[1] * b[2] - a[2] * b[1]>>
Abs(n) == IF n < 0 THEN -n ELSE n

RECURSIVE Gcd(_, _)
Gcd(a, b) == IF b = 0 THEN a ELSE Gcd(b, a % b)

\* The direction of v: v divided by the gcd of its components (Zero3 has none).
Direction(v) ==
    LET g == Gcd(Gcd(Abs(v[1]), Abs(v[2])), Abs(v[3]))
    IN  IF g = 0 THEN Zero3 ELSE <<v[1] \div g, v[2] \div g, v[3] \div g>>

\* A unit vector along a coordinate axis (or its opposite).
IsAxisVector(v) == VDot(v, v) = 1
\* The k-th coordinate axis of the world, k counted from 0 and taken modulo 3
UnitAxis(k) ==
    <<IF k % 3 = 0 THEN 1 ELSE 0, IF k % 3 = 1 THEN 1 ELSE 0, IF k % 3 = 2 THEN 1 ELSE 0>>

(* Rotations: <<direction of local +X, direction of local +Y>> *)

IdentityRot == <<Vec3(1, 0, 0), Vec3(0, 1, 0)>>
RotZ(R) == Direction(VCross(R[1], R[2]))
\* The world direction of the local axis vector v (v is a signed axis or zero).
RotApply(R, v) ==
    Direction(VAdd(VAdd(VScale(v[1], R[1]), VScale(v[2], R[2])), VScale(v[3], RotZ(R))))
\* A rotation whose axes lie along the coordinate axes.
IsLatticeRot(R) == IsAxisVector(R[1]) /\ IsAxisVector(R[2])

----------------------------------------------------------------------------
(* The host application (Maya): the part of its behaviour the source does  *)
(* not determine is a parameter of the scene, fixed in the initial state.  *)

VARIABLES
    parentOf,   \* node -> its DAG parent, NoNode for a top node
    nodeType,   \* node -> "joint", "transform", "ikHandle" (a transform subtype), "mesh" (a shape)
    attrs,      \* node -> its orient attributes: a function from attribute name to value
    pos,        \* node -> world position
    rot,        \* node -> world rotation
    rotZero,    \* node -> TRUE when its local rotate channels are zero
    temps,      \* the helper nodes and constraints alive in the scene
    host,       \* [noneRaises, fallbackAxis]: how the host treats None and degenerate aims
    oj,         \* the OrientJoint instance (its fields)
    last,       \* what the last operation did: its kind, outcome, warnings, steps, snapshots
    batch       \* the orient_with_attributes call in progress: its frames and its log

vars == <<parentOf, nodeType, attrs, pos, rot, rotZero, temps, host, oj, last, batch>>

\* joint.is_joint
is_joint(n) == nodeType[n] = "joint"
\* transform.is_transform: the node is of a type derived from transform
is_transform(n) == nodeType[n] \in {"joint", "transform", "ikHandle"}

\* maya.cmds.listRelatives(n, f=True): the children of n, in DAG order
RECURSIVE SeqOfSet(_)
SeqOfSet(S) ==
    IF S = {} THEN <<>>
    ELSE LET m == CHOOSE x \in S : \A y \in S : x <= y
         IN  <<m>> \o SeqOfSet(S \ {m})
listRelatives(P, n) == SeqOfSet({c \in Nodes : P[c] = n})
\* maya.cmds.listRelatives(n, f=True, type='transform')
listRelativesTransform(P, n) == SelectSeq(listRelatives(P, n), is_transform)
\* maya.cmds.listRelatives(n, p=True, f=True)
listRelativesParent(P, n) == P[n]
\* scene.get_top_dag_nodes
get_top_dag_nodes == SeqOfSet({c \in Nodes : parentOf[c] = NoNode})

(* Values that are an index, a node name or None in the source *)
IntVal(i) == <<"int", i>>
NoneVal == <<"None", 0>>
IsInt(v) == v[1] = "int"
\* Python truth of such a value: None and 0 are false, a node name is true
Truthy(v) == v # NoneVal /\ v # IntVal(0)

(* Helper nodes: [name, p, off, r, on].  name is <<kind, index>>, as the   *)
(* host names a new node after the first free index; p is the world        *)
(* position; off is the direction of a further unit offset that is not on  *)
(* the lattice (Zero3 when p is exact); r the world rotation; on the node a *)
(* constraint drives (NoNode for a group).                                 *)
\* The kinds are world_aim, position_group, local_up, plane_grp, pin, and the
\* constraints pin_cns and aim_cns.
ConstraintKinds == {"pin_cns", "aim_cns"}
TempNames(T) == {t.name : t \in T}
TempNamed(T, nm) == CHOOSE t \in T : t.name = nm
FreeIndex(T, kind) ==
    CHOOSE i \in 1..(Cardinality(T) + 1) :
        /\ <<kind, i>> \notin TempNames(T)
        /\ \A k \in 1..(i - 1) : <<kind, k>> \in TempNames(T)
NewTemp(T, kind, p, off, r, on) ==
    [name |-> <<kind, FreeIndex(T, kind)>>, p |-> p, off |-> off, r |-> r, on |-> on]
\* maya.cmds.objExists of a helper's name
TempExists(T, nm) == nm \in TempNames(T)
\* the nodes a constraint of the scene holds in place
Pinned(T) == {t.on : t \in {x \in T : x.name[1] = "pin_cns"}}
Constrained(T, n) == \E t \in T : t.name[1] \in ConstraintKinds /\ t.on = n

----------------------------------------------------------------------------
(* The attribute objects of tpDcc.dccs.maya.core.attribute, on the value   *)
(* function a of one node.                                                 *)

\* Attribute.create(node): adds the attribute with the object's value unless the node has it
Attribute_create(a, name, value) == IF name \in DOMAIN a THEN a ELSE a @@ (name :> value)
\* Attribute.set_value: writes the node's attribute, if the node has it
Attribute_set_value(a, name, value) ==
    IF name \in DOMAIN a THEN [a EXCEPT ![name] = value] ELSE a
\* Attribute.get_value: the node's value, None when the node has no such attribute
Attribute_get_value(a, name) == IF name \in DOMAIN a THEN IntVal(a[name]) ELSE NoneVal

NoAttrs == [x \in {} |-> 0]
EmptyDict == [x \in {} |-> NoneVal]

\* OrientJointAttributes.attributes after _create_attributes: <<name, value given to the object>>
OrientAttributes ==
    << <<"aimAxis", 0>>, <<"upAxis", 1>>, <<"worldUpAxis", 1>>, <<"aimAt", 3>>,
       <<"aimUpAt", 0>>, <<"triangleTop", 1>>, <<"triangleMid", 2>>,
       <<"triangleBottom", 3>>, <<"active", 1>> >>
\* The attributes _create_attributes calls create() for: every one but aimUpAt, for
\* which it only calls set_node() and then creates aimAt a second time.
CreatedAttributes == SelectSeq(OrientAttributes, LAMBDA e : e[1] # "aimUpAt")

RECURSIVE CreateAll(_, _)
CreateAll(a, entries) ==
    IF entries = <<>> THEN a
    ELSE CreateAll(Attribute_create(a, entries[1][1], entries[1][2]), Tail(entries))

\* OrientJointAttributes._create_attributes, on the attributes a of self.joint
_create_attributes(a) == CreateAll(Attribute_create(a, "ORIENT_INFO", 0), CreatedAttributes)

RECURSIVE SetAll(_, _)
SetAll(a, entries) ==
    IF entries = <<>> THEN a
    ELSE SetAll(Attribute_set_value(a, entries[1][1], entries[1][2]), Tail(entries))

\* OrientJointAttributes.set_default_values
set_default_values(a) == SetAll(a, OrientAttributes)

\* OrientJointAttributes.get_values
get_values(a) ==
    [name \in {OrientAttributes[i][1] : i \in DOMAIN OrientAttributes} |->
        Attribute_get_value(a, name)]

\* OrientJointAttributes.add_orient_attributes(obj) for one node: the new attrs
add_orient_attributes(A, n) ==
    IF ~is_joint(n) /\ ~is_transform(n) THEN A
    ELSE [A EXCEPT ![n] = set_default_values(_create_attributes(A[n]))]

----------------------------------------------------------------------------
(* OrientJoint *)

\* get_vector_from_axis with the rows of X and Y exchanged
get_vector_from_axis_swapped(axis_index) ==
    << <<0, 1, 0>>, <<1, 0, 0>>, <<0, 0, 1>>,
       <<0, -1, 0>>, <<-1, 0, 0>>, <<0, 0, -1>>, <<0, 0, 0>> >>[axis_index + 1]

\* OrientJoint.get_vector_from_axis
get_vector_from_axis(axis_index) ==
    << <<1, 0, 0>>, <<0, 1, 0>>, <<0, 0, 1>>,
       <<-1, 0, 0>>, <<0, -1, 0>>, <<0, 0, -1>>, <<0, 0, 0>> >>[axis_index + 1]

\* OrientJoint._get_relatives, on the instance o
_get_relatives(P, o) ==
    LET parent == listRelativesParent(P, o.joint)
        o1 == IF parent # NoNode
              THEN LET grand_parent == listRelativesParent(P, parent)
                   IN  [o EXCEPT !.parent = parent,
                                 !.grand_parent =
                                     IF grand_parent # NoNode THEN grand_parent ELSE @]
              ELSE o
        children == listRelativesTransform(P, o.joint)
    IN  IF children = <<>> THEN o1
        ELSE LET grand_children == listRelatives(P, children[1])
             IN  [o1 EXCEPT
                    !.child = children[1],
                    !.has_child2 = IF Len(children) > 1 THEN TRUE ELSE @,
                    !.child2 = IF Len(children) > 1 THEN children[2] ELSE @,
                    !.grand_child = IF grand_children # <<>> THEN grand_children[1] ELSE @]

\* OrientJoint.__init__: self.child2 is not among the attributes it sets (it sets
\* self.chidl2), so the instance has a child2 only once _get_relatives finds one.
OrientJoint(P, joint_name) ==
    _get_relatives(P,
        [joint |-> joint_name, orient_values |-> EmptyDict,
         aim_vector |-> <<1, 0, 0>>, up_vector |-> <<0, 1, 0>>,
         world_up_vector |-> get_vector_from_axis(1),
         aim_at |-> IntVal(3), aim_up_at |-> IntVal(0),
         child |-> NoNode, has_child2 |-> FALSE, child2 |-> NoNode, grand_child |-> NoNode,
         parent |-> NoNode, grand_parent |-> NoNode,
         delete_later |-> <<>>, up_space_type |-> "vector"])

----------------------------------------------------------------------------
(* One call is the composition of its steps on a record s of the scene     *)
(* fields the call changes, the instance o, and what the call did so far:  *)
(* raised (an exception is propagating), warn (the warnings logged), steps  *)
(* (the steps taken, in order), created (the helpers the call created),    *)
(* ret (the value the last helper function returned).                      *)

\* No helper node: the place of a target the call does not have
NoTemp == [name |-> NoneVal, p |-> Zero3, off |-> Zero3, r |-> IdentityRot, on |-> NoNode]
\* aim: the maya.cmds.aimConstraint call of _create_aim, when it was made: the
\* target and worldUpObject nodes, aimVector, upVector, worldUpVector,
\* worldUpType, the directions d to the target and p of the up, the rotation R
\* the joint got, the helper nodes in the scene when the call returned
NoAim ==
    [made |-> FALSE, target |-> NoTemp, up |-> NoTemp, aimVector |-> Zero3, upVector |-> Zero3,
     worldUpVector |-> Zero3, worldUpType |-> "none", d |-> Zero3, p |-> Zero3,
     R |-> IdentityRot, helpers |-> {}]

CallState(o) ==
    [parentOf |-> parentOf, attrs |-> attrs, pos |-> pos, rot |-> rot, rotZero |-> rotZero, temps |-> temps,
     o |-> o, raised |-> FALSE, warn |-> {}, steps |-> <<>>, created |-> {},
     ret |-> NoneVal, aim |-> NoAim]

\* F(v), with v evaluated once and F applied to its value
Eval(v, F(_)) == CHOOSE r \in {F(x) : x \in {v}} : TRUE

\* F(s), unless an exception is propagating in s
Then(s, F(_)) == IF s.raised THEN s ELSE F(s)

Raise(s, what) == [s EXCEPT !.raised = TRUE, !.steps = Append(@, what)]
Step(s, what) == [s EXCEPT !.steps = Append(@, what)]
Warn(s, what) == [s EXCEPT !.warn = @ \cup {what}]

\* maya.cmds.group(empty=True, n=kind): a new empty group at the origin, which the
\* host leaves selected
NewGroup(s, kind, p, off, r) ==
    Eval(NewTemp(s.temps, kind, p, off, r, NoNode),
         LAMBDA t : [s EXCEPT !.temps = @ \cup {t}, !.created = @ \cup {t.name},
                              !.ret = t.name])

\* self.delete_later.append(name)
DeleteLater(s, nm) == [s EXCEPT !.o.delete_later = Append(@, nm)]
\* self.delete_later.append(group), for the group just created
DeleteLaterRet(s) == DeleteLater(s, s.ret)

\* The position p moved one unit along the direction dir: exact when dir is a
\* coordinate axis, else p with the direction kept as the offset
MovedAlong(p, dir) ==
    IF IsAxisVector(dir) THEN [p |-> VAdd(p, dir), off |-> Zero3]
    ELSE [p |-> p, off |-> dir]

\* _get_position_group that does not append the group to delete_later
_get_position_group_unrecorded(s, n) ==
    IF n = NoNode
    THEN Eval(NewGroup(s, "position_group", Zero3, Zero3, IdentityRot),
              LAMBDA s1 : IF host.noneRaises THEN Raise(s1, "raise:position_group") ELSE s1)
    ELSE NewGroup(s, "position_group", s.pos[n], Zero3, s.rot[n])

\* OrientJoint._get_position_group(transfrom_name).  MatchTransform of a None
\* source is a host call on None: it raises, or it reads the selected node, which
\* is the new group itself.
_get_position_group(s, n) ==
    IF n = NoNode
    THEN Eval(NewGroup(s, "position_group", Zero3, Zero3, IdentityRot),
              LAMBDA s1 : IF host.noneRaises THEN Raise(s1, "raise:position_group")
                          ELSE DeleteLaterRet(s1))
    ELSE Eval(NewGroup(s, "position_group", s.pos[n], Zero3, s.rot[n]), DeleteLaterRet)

\* OrientJoint._get_local_up_group(transform_name)
_get_local_up_group(s, n) ==
    LET jp == s.pos[s.o.joint]
    IN  IF n = NoNode
        THEN IF host.noneRaises
             THEN Raise(NewGroup(s, "local_up", Zero3, Zero3, IdentityRot), "raise:local_up")
             ELSE LET m == MovedAlong(jp, IdentityRot[1])
                  IN  Eval(NewGroup(s, "local_up", m.p, m.off, IdentityRot), DeleteLaterRet)
        ELSE LET m == MovedAlong(jp, s.rot[n][1])
             IN  Eval(NewGroup(s, "local_up", m.p, m.off, s.rot[n]), DeleteLaterRet)

\* _get_aim_at that moves the world_aim group along the axes of the joint (a move
\* in object space) instead of the axes of the world
_get_aim_at_object_space(s, index) ==
    IF index < 3
    THEN LET m == MovedAlong(s.pos[s.o.joint], RotApply(s.rot[s.o.joint], UnitAxis(index)))
         IN  Eval(NewGroup(s, "world_aim", m.p, m.off, IdentityRot), DeleteLaterRet)
    ELSE IF index = 3 THEN _get_position_group(s, s.o.child)
    ELSE IF index = 4 THEN _get_position_group(s, s.o.parent)
    ELSE IF index = 5 THEN _get_local_up_group(s, s.o.parent)
    ELSE [s EXCEPT !.ret = NoneVal]

\* _get_aim_at with the child and parent branches exchanged
_get_aim_at_swapped(s, index) ==
    IF index < 3
    THEN LET move == IF index = 0 THEN <<1, 0, 0>>
                     ELSE IF index = 1 THEN <<0, 1, 0>>
                     ELSE IF index = 2 THEN <<0, 0, 1>> ELSE Zero3
         IN  Eval(NewGroup(s, "world_aim", VAdd(s.pos[s.o.joint], move), Zero3, IdentityRot),
                  DeleteLaterRet)
    ELSE IF index = 3 THEN _get_position_group(s, s.o.parent)
    ELSE IF index = 4 THEN _get_position_group(s, s.o.child)
    ELSE IF index = 5 THEN _get_local_up_group(s, s.o.parent)
    ELSE [s EXCEPT !.ret = NoneVal]

\* OrientJoint._get_aim_at(index)
_get_aim_at(s, index) ==
    IF index < 3
    THEN LET move == IF index = 0 THEN <<1, 0, 0>>
                     ELSE IF index = 1 THEN <<0, 1, 0>>
                     ELSE IF index = 2 THEN <<0, 0, 1>> ELSE Zero3
         IN  Eval(NewGroup(s, "world_aim", VAdd(s.pos[s.o.joint], move), Zero3, IdentityRot),
                  DeleteLaterRet)
    ELSE IF index = 3 THEN _get_position_group(s, s.o.child)
    ELSE IF index = 4 THEN _get_position_group(s, s.o.parent)
    ELSE IF index = 5 THEN _get_local_up_group(s, s.o.parent)
    ELSE [s EXCEPT !.ret = NoneVal]


\* target_transform of _get_triangle_group(index) on the instance o (lines 689-699)
TriangleTransform(o, index) ==
    IF index = 0 THEN o.grand_parent
    ELSE IF index = 1 THEN o.parent
    ELSE IF index = 2 THEN o.joint
    ELSE IF index = 4 THEN o.child
    ELSE NoNode

\* OrientJoint._get_triangle_group(index): index 3 reaches no branch, and the second
\* branch for index 4 is never taken
_get_triangle_group(s, index) ==
    LET target_transform == TriangleTransform(s.o, index)
    IN  IF target_transform = NoNode THEN [s EXCEPT !.ret = NoneVal]
        ELSE _get_position_group(s, target_transform)

\* The host's choice of a direction perpendicular to D when the up direction gives
\* none: the cross product of D with the first axis, from host.fallbackAxis on, that
\* is not parallel to D
HostPerpendicular(D) ==
    LET k == host.fallbackAxis
        order == <<k, (k % 3) + 1, ((k + 1) % 3) + 1>>
        cand == [i \in 1..3 |-> Direction(VCross(D, UnitAxis(order[i] - 1)))]
    IN  IF D = Zero3 THEN UnitAxis(k)
        ELSE IF cand[1] # Zero3 THEN cand[1]
        ELSE cand[2]

\* v made perpendicular to the direction D (Zero3 when v is parallel to D or zero)
Orthogonalized(v, D) == Direction(VSub(VScale(VDot(D, D), v), VScale(VDot(v, D), D)))

\* transform.create_group_in_plane(top, mid, btm): a group at mid whose +X runs
\* from top to btm and whose +Y lies in the plane of the three, towards mid
create_group_in_plane(s, top, mid, btm) ==
    LET pt == TempNamed(s.temps, top).p
        pm == TempNamed(s.temps, mid).p
        pb == TempNamed(s.temps, btm).p
        X0 == Direction(VSub(pb, pt))
        X == IF X0 = Zero3 THEN UnitAxis(host.fallbackAxis - 1) ELSE X0
        Y0 == Orthogonalized(VSub(pm, pt), X)
        Y == IF Y0 = Zero3 THEN HostPerpendicular(X) ELSE Y0
    IN  NewGroup(s, "plane_grp", pm, Zero3, <<X, Y>>)

\* maya.cmds.move(0, 10, 0, plane_grp, r=True, os=True)
MovePlaneGroup(s, nm) ==
    LET t == TempNamed(s.temps, nm)
        Y == t.r[2]
        moved == IF IsAxisVector(Y) THEN [t EXCEPT !.p = VAdd(@, VScale(10, Y))]
                 ELSE [t EXCEPT !.off = Y]
    IN  [s EXCEPT !.temps = (@ \ {t}) \cup {moved}]

\* self.up_space_type = t, after a call that did not raise
UpSpace(s, t) == IF s.raised THEN s ELSE [s EXCEPT !.o.up_space_type = t]

\* _get_aim_up_at(4) once the three triangle groups are top, mid and btm
TrianglePlane(s, top, mid, btm) ==
    IF top = NoneVal \/ mid = NoneVal \/ btm = NoneVal
    THEN [Warn(s, "triangle") EXCEPT !.ret = NoneVal]
    ELSE Eval(create_group_in_plane(s, top, mid, btm),
              LAMBDA s4 : [DeleteLater(MovePlaneGroup(s4, s4.ret), s4.ret)
                              EXCEPT !.o.up_space_type = "object", !.ret = s4.ret])

\* OrientJoint._get_aim_up_at(index); index is IntVal(i), or NoneVal for the value
\* of an attribute the node does not have
_get_aim_up_at(s, index) ==
    IF index = IntVal(1)
    THEN Eval([s EXCEPT !.o.up_space_type = "objectrotation"],
              LAMBDA s1 : _get_local_up_group(s1, s1.o.parent))
    ELSE IF index = IntVal(2)
    THEN Eval(_get_position_group(s, s.o.child), LAMBDA s1 : UpSpace(s1, "object"))
    ELSE IF index = IntVal(3)
    THEN Eval(_get_position_group(s, s.o.parent), LAMBDA s1 : UpSpace(s1, "object"))
    ELSE IF index = IntVal(4)
    THEN IF "triangleTop" \notin DOMAIN s.o.orient_values
         THEN Raise(s, "raise:orient_values")
         ELSE LET v == s.o.orient_values
              IN  Eval(_get_triangle_group(s, v["triangleTop"][2]), LAMBDA s1 :
                  Eval(_get_triangle_group(s1, v["triangleMid"][2]), LAMBDA s2 :
                  Eval(_get_triangle_group(s2, v["triangleBottom"][2]), LAMBDA s3 :
                  TrianglePlane(s3, s1.ret, s2.ret, s3.ret))))
    ELSE IF index = IntVal(5)
    THEN Eval([s EXCEPT !.o.up_space_type = "object"],
              LAMBDA s1 : IF ~s1.o.has_child2 THEN Raise(s1, "raise:child2")
                          ELSE IF s1.o.child2 # NoNode
                          THEN _get_position_group(s1, s1.o.child2)
                          ELSE [Warn(s1, "child2") EXCEPT !.ret = NoneVal])
    ELSE [s EXCEPT !.ret = NoneVal]

\* The direction from the point jp to the helper t
DirFrom(jp, t) ==
    IF t.off = Zero3 THEN Direction(VSub(t.p, jp))
    ELSE IF t.p = jp THEN t.off
    ELSE Direction(VAdd(VSub(t.p, jp), t.off))

\* The rotation that takes the local axes a and u (perpendicular signed axes) to
\* the perpendicular world directions D and P
FrameRot(a, u, D, P) ==
    LET t == VCross(a, u)
        T == Direction(VCross(D, P))
        Img(e) == Direction(VAdd(VAdd(VScale(VDot(e, a), D), VScale(VDot(e, u), P)),
                                 VScale(VDot(e, t), T)))
    IN  <<Img(<<1, 0, 0>>), Img(<<0, 1, 0>>)>>

\* A local axis perpendicular to the signed axis a
PerpendicularAxis(a) == IF a[1] = 0 THEN <<1, 0, 0>> ELSE <<0, 1, 0>>

\* AimConstraintRotation with the up direction taken as given, not made
\* perpendicular to the aim direction
AimConstraintRotation_raw_up(a, u, d, p) ==
    LET D == Direction(d)
        upLocal == u # Zero3 /\ VDot(a, u) = 0
        uu == IF upLocal THEN u ELSE PerpendicularAxis(a)
        P0 == Orthogonalized(p, D)
        P == IF upLocal /\ P0 # Zero3 THEN Direction(p) ELSE HostPerpendicular(D)
    IN  IF a = Zero3 \/ D = Zero3
        THEN FrameRot(<<1, 0, 0>>, <<0, 1, 0>>,
                      UnitAxis(host.fallbackAxis - 1), UnitAxis(host.fallbackAxis))
        ELSE FrameRot(a, uu, D, P)

\* AimConstraintRotation without the fallback for an up direction along the aim
AimConstraintRotation_no_fallback(a, u, d, p) ==
    LET D == Direction(d)
        upLocal == u # Zero3 /\ VDot(a, u) = 0
        uu == IF upLocal THEN u ELSE PerpendicularAxis(a)
        P == Orthogonalized(p, D)
    IN  IF a = Zero3 \/ D = Zero3
        THEN FrameRot(<<1, 0, 0>>, <<0, 1, 0>>,
                      UnitAxis(host.fallbackAxis - 1), UnitAxis(host.fallbackAxis))
        ELSE FrameRot(a, uu, D, P)

\* maya.cmds.aimConstraint: the world rotation it gives the constrained node.
\* a, u: aimVector, upVector (local); d: the direction to the target; p: the up
\* direction in the world (Zero3 when the up-space type provides none).
AimConstraintRotation(a, u, d, p) ==
    LET D == Direction(d)
        upLocal == u # Zero3 /\ VDot(a, u) = 0
        uu == IF upLocal THEN u ELSE PerpendicularAxis(a)
        P0 == Orthogonalized(p, D)
        P == IF upLocal /\ P0 # Zero3 THEN P0 ELSE HostPerpendicular(D)
    IN  IF a = Zero3 \/ D = Zero3
        THEN FrameRot(<<1, 0, 0>>, <<0, 1, 0>>,
                      UnitAxis(host.fallbackAxis - 1), UnitAxis(host.fallbackAxis))
        ELSE FrameRot(a, uu, D, P)

\* The position v (relative to the pivot) after the pivot's rotation changed from
\* old to new; exact for lattice rotations
Rerotated(old, new, v) ==
    VAdd(VAdd(VScale(VDot(v, old[1]), new[1]), VScale(VDot(v, old[2]), new[2])),
         VScale(VDot(v, RotZ(old)), RotZ(new)))

\* A position off the lattice: where a node carried along by a rotation that is
\* not a lattice rotation ends up
OffLattice == <<1000, 1000, 1000>>

RECURSIVE IsBelow(_, _, _)
\* n is c or a descendant of c
IsBelow(P, n, c) == n # NoNode /\ (n = c \/ IsBelow(P, P[n], c))

\* The scene after the host set the world rotation of node j to R: the transform
\* children of j a constraint holds keep their world transform (their local
\* rotation takes up the difference), the others are carried along with all that
\* is below them
SetWorldRotation(s, j, R) ==
    LET old == s.rot[j]
        kids == {c \in Nodes : s.parentOf[c] = j /\ is_transform(c)}
        carried == {n \in Nodes : \E c \in kids \ Pinned(s.temps) : IsBelow(s.parentOf, n, c)}
        exact == IsLatticeRot(old) /\ IsLatticeRot(R)
    IN  IF R = old THEN s
        ELSE [s EXCEPT
                !.rot = [n \in Nodes |->
                            IF n = j THEN R
                            ELSE IF n \in carried
                            THEN IF exact
                                 THEN <<Rerotated(old, R, s.rot[n][1]),
                                        Rerotated(old, R, s.rot[n][2])>>
                                 ELSE <<OffLattice, OffLattice>>
                            ELSE s.rot[n]],
                !.pos = [n \in Nodes |->
                            IF n \in carried
                            THEN IF exact
                                 THEN VAdd(s.pos[j], Rerotated(old, R, VSub(s.pos[n], s.pos[j])))
                                 ELSE OffLattice
                            ELSE s.pos[n]],
                !.rotZero = [n \in Nodes |->
                            IF n = j \/ n \in (kids \cap Pinned(s.temps)) THEN FALSE
                            ELSE s.rotZero[n]]]

\* The aim constraint on the joint of s, which has the rotation R
AddAimConstraint(s, R) ==
    Eval(NewTemp(s.temps, "aim_cns", s.pos[s.o.joint], Zero3, R, s.o.joint),
         LAMBDA aim : DeleteLater([s EXCEPT !.temps = @ \cup {aim},
                                            !.created = @ \cup {aim.name}], aim.name))

\* OrientJoint._create_aim
_create_aim(s) ==
    LET o == s.o
        j == o.joint
        withUp == Truthy(o.aim_up_at)
    IN  IF ~TempExists(s.temps, o.aim_at) \/ (withUp /\ ~TempExists(s.temps, o.aim_up_at))
        THEN Raise(s, "raise:aimConstraint")
        ELSE LET target == TempNamed(s.temps, o.aim_at)
                 p == IF o.up_space_type = "vector" THEN o.world_up_vector
                      ELSE IF ~withUp THEN Zero3
                      ELSE IF o.up_space_type = "object"
                      THEN DirFrom(s.pos[j], TempNamed(s.temps, o.aim_up_at))
                      ELSE RotApply(TempNamed(s.temps, o.aim_up_at).r, o.world_up_vector)
             IN  Eval(AimConstraintRotation(o.aim_vector, o.up_vector,
                                            DirFrom(s.pos[j], target), p),
                      LAMBDA R : Eval(Step(AddAimConstraint(SetWorldRotation(s, j, R), R), "aim"),
                                      LAMBDA s1 :
                        [s1 EXCEPT
                            !.aim = [made |-> TRUE, target |-> target,
                                     helpers |-> TempNames(s1.temps),
                                     up |-> IF withUp THEN TempNamed(s.temps, o.aim_up_at)
                                            ELSE NoTemp,
                                     aimVector |-> o.aim_vector, upVector |-> o.up_vector,
                                     worldUpVector |-> o.world_up_vector,
                                     worldUpType |-> o.up_space_type,
                                     d |-> DirFrom(s.pos[j], target), p |-> p, R |-> R]]))

\* OrientJoint._cleanup: maya.cmds.delete(self.delete_later) raises when a name of
\* the list matches no object
_cleanup(s) ==
    LET names == {s.o.delete_later[i] : i \in DOMAIN s.o.delete_later}
    IN  IF \E nm \in names : ~TempExists(s.temps, nm)
        THEN Raise(s, "raise:delete")
        ELSE Step([s EXCEPT !.temps = {t \in @ : t.name \notin names}], "cleanup")


\* maya.cmds.makeIdentity(n, apply=True, r=True, s=True): a joint keeps its world
\* rotation, now held by its joint orient; any other transform is reset to the
\* rotation of its parent
makeIdentity(s, n) ==
    LET par == s.parentOf[n]
        R == IF is_joint(n) THEN s.rot[n]
             ELSE IF par = NoNode THEN IdentityRot ELSE s.rot[par]
    IN  [s EXCEPT !.rot[n] = R, !.rotZero[n] = TRUE]

\* _freeze that does not parent the children back to the joint
_freeze_unparented(s) ==
    LET j == s.o.joint
        found_children == {c \in Nodes : s.parentOf[c] = j /\ is_transform(c)}
        away == [s EXCEPT !.parentOf = [n \in Nodes |->
                            IF n \in found_children THEN NoNode ELSE s.parentOf[n]]]
    IN  IF Constrained(s.temps, j)
        THEN Raise(away, "raise:makeIdentity")
        ELSE Step(makeIdentity(away, j), "freeze")

\* OrientJoint._freeze: the transform children are parented to the world, the
\* node is frozen, the children are parented back.  makeIdentity raises on a node
\* whose channels a constraint drives, after the children were parented away.
_freeze(s) ==
    LET j == s.o.joint
        found_children == {c \in Nodes : s.parentOf[c] = j /\ is_transform(c)}
    IN  IF Constrained(s.temps, j)
        THEN Raise([s EXCEPT !.parentOf = [n \in Nodes |->
                                IF n \in found_children THEN NoNode ELSE s.parentOf[n]]],
                   "raise:makeIdentity")
        ELSE Step(makeIdentity(s, j), "freeze")

RECURSIVE PinAll(_, _)
\* transform.PinTransform.pin on each node of the sequence q: a duplicate of the
\* node in the world and a parent constraint from it to the node; both are among
\* get_pin_nodes()
PinAll(s, q) ==
    IF q = <<>> THEN s
    ELSE LET n == q[1]
             pin == NewTemp(s.temps, "pin", s.pos[n], Zero3, s.rot[n], NoNode)
             cns == NewTemp(s.temps, "pin_cns", s.pos[n], Zero3, s.rot[n], n)
         IN  Eval([s EXCEPT !.temps = @ \cup {pin, cns},
                            !.created = @ \cup {pin.name, cns.name},
                            !.o.delete_later = @ \o <<pin.name, cns.name>>],
                  LAMBDA s1 : PinAll(s1, Tail(q)))

\* _pin that pins nothing
_pin_nothing(s) == Step(s, "pin")

\* OrientJoint._pin: PinTransform(self.joint).pin() pins the parent and the
\* transform children of the joint
_pin(s) ==
    LET j == s.o.joint
        parent == listRelativesParent(s.parentOf, j)
        nodes == (IF parent # NoNode THEN <<parent>> ELSE <<>>)
                 \o listRelativesTransform(s.parentOf, j)
    IN  Eval(PinAll(s, nodes), LAMBDA s1 : Step(s1, "pin"))

\* OrientJoint._get_values: the dictionary is left in s.o.orient_values; an empty
\* one stands for None and for the empty dictionary alike
_get_values(s) ==
    LET j == s.o.joint
    IN  IF "ORIENT_INFO" \notin DOMAIN s.attrs[j]
        THEN [Warn(s, "no_attributes") EXCEPT !.o.orient_values = EmptyDict]
        ELSE IF is_joint(j) \/ is_transform(j)
        THEN LET a == _create_attributes(s.attrs[j])
             IN  [s EXCEPT !.attrs[j] = a, !.o.orient_values = get_values(a)]
        ELSE [s EXCEPT !.o.orient_values = EmptyDict]

\* self.aim_at = <the group returned>, self.aim_up_at = <the group returned>
SetAimAt(s) == IF s.raised THEN s ELSE [s EXCEPT !.o.aim_at = s.ret]
SetAimUpAt(s) == IF s.raised THEN s ELSE [s EXCEPT !.o.aim_up_at = s.ret]

\* OrientJoint.run, lines 483-493: the vectors and the targets
ResolveTargets(s) ==
    LET v == s.o.orient_values
    IN  IF DOMAIN v # {}
        THEN Eval([s EXCEPT
                      !.o.aim_vector = get_vector_from_axis(v["aimAxis"][2]),
                      !.o.up_vector = get_vector_from_axis(v["upAxis"][2]),
                      !.o.world_up_vector = get_vector_from_axis(v["worldUpAxis"][2])],
                  LAMBDA s1 :
             Eval(_get_aim_at(s1, v["aimAt"][2]), LAMBDA s2 :
             Eval(SetAimAt(s2), LAMBDA s3 :
             Then(s3, LAMBDA x : Eval(_get_aim_up_at(x, v["aimUpAt"]), SetAimUpAt)))))
        ELSE Eval(IF IsInt(s.o.aim_at)
                  THEN Eval(_get_aim_at(s, s.o.aim_at[2]), SetAimAt)
                  ELSE s,
                  LAMBDA s2 :
                    IF s2.raised \/ ~IsInt(s2.o.aim_up_at) THEN s2
                    ELSE Eval(_get_aim_up_at(s2, s2.o.aim_up_at), SetAimUpAt))

\* RunStep with the cleanup before the aim
RunStep_cleanup_first(k, s) ==
    CASE k = 1 -> _freeze(s)
      [] k = 2 -> Step([s EXCEPT !.o = _get_relatives(s.parentOf, s.o)], "relatives")
      [] k = 3 -> _pin(s)
      [] k = 4 -> Step(s, "rotateAxis")
      [] k = 5 -> _get_values(s)
      [] k = 6 -> Eval(ResolveTargets(s), LAMBDA x : Then(x, LAMBDA y : Step(y, "targets")))
      [] k = 7 -> _cleanup(s)
      [] k = 8 -> _create_aim(s)
      [] k = 9 -> _freeze(s)

\* The k-th step of OrientJoint.run after the test of the active attribute
\* (lines 471-497)
RunStep(k, s) ==
    CASE k = 1 -> _freeze(s)
      [] k = 2 -> Step([s EXCEPT !.o = _get_relatives(s.parentOf, s.o)], "relatives")
      [] k = 3 -> _pin(s)
      [] k = 4 -> Step(s, "rotateAxis")
      [] k = 5 -> _get_values(s)
      [] k = 6 -> Eval(ResolveTargets(s), LAMBDA x : Then(x, LAMBDA y : Step(y, "targets")))
      [] k = 7 -> _create_aim(s)
      [] k = 8 -> _cleanup(s)
      [] k = 9 -> _freeze(s)

RECURSIVE RunFrom(_, _)
\* The steps from the k-th on; an exception ends the call where it is raised
RunFrom(k, s) ==
    IF s.raised \/ k > 9 THEN s
    ELSE Eval(RunStep(k, s), LAMBDA x : RunFrom(k + 1, x))
RunSteps(s) == RunFrom(1, s)

\* run that does not test the active attribute
run_always(o) ==
    Eval(RunSteps(CallState(o)),
         LAMBDA e : [outcome |-> IF e.raised THEN "raised" ELSE "done", s |-> e])

\* OrientJoint.run on the instance o: the call state at its end, with
\* outcome "skipped", "raised" or "done"
run(o) ==
    LET s == CallState(o)
        j == o.joint
    IN  IF "active" \in DOMAIN attrs[j] /\ attrs[j]["active"] = 0
        THEN [outcome |-> "skipped", s |-> Warn(s, "inactive")]
        ELSE Eval(RunSteps(s),
                  LAMBDA e : [outcome |-> IF e.raised THEN "raised" ELSE "done", s |-> e])

----------------------------------------------------------------------------
(* Scenes *)

\* The forests on Nodes (a parent has a smaller index than its children)
Forests == {P \in [Nodes -> Nodes \cup {NoNode}] : \A n \in Nodes : P[n] < n}

RECURSIVE ScenePosition(_, _)
\* Top nodes stand along +Z from the origin; a bone runs one unit along a
\* coordinate axis
ScenePosition(P, n) ==
    IF P[n] = NoNode THEN <<0, 0, n - 1>>
    ELSE VAdd(ScenePosition(P, P[n]), UnitAxis(n))
SceneRotation(n) == <<UnitAxis(n), UnitAxis(n + 1)>>

\* The attributes of a configured node
Config(axes, aimAt, aimUpAt, triangle, active) ==
    LET base == ("ORIENT_INFO" :> 0) @@ ("aimAxis" :> axes[1]) @@ ("upAxis" :> axes[2])
                @@ ("worldUpAxis" :> axes[3]) @@ ("aimAt" :> aimAt)
                @@ ("triangleTop" :> triangle[1]) @@ ("triangleMid" :> triangle[2])
                @@ ("triangleBottom" :> triangle[3]) @@ ("active" :> active)
    IN  IF aimUpAt = NoneVal THEN base ELSE base @@ ("aimUpAt" :> aimUpAt[2])
DefaultAxes == <<0, 1, 1>>
DefaultTriangle == <<1, 2, 3>>
DefaultConfig == set_default_values(_create_attributes(NoAttrs))

AimAtValues == 0..5
\* the aimUpAt enum has five names; the attribute may be missing from the node
AimUpAtValues == {NoneVal} \cup {IntVal(i) : i \in 0..4}
\* other axes: -Z/+X/world -X; an up axis along the aim axis; no aim axis
AxesChoices == {<<5, 0, 3>>, <<1, 4, 1>>, <<6, 1, 1>>}
\* other triangles: grandparent/self/child and parent/self/child
TriangleChoices == {DefaultTriangle, <<0, 2, 4>>, <<1, 2, 4>>}
\* The configurations of the joint: none; inactive; every aim and up source with
\* the default axes; the other axes with some of the sources
ConfigChoices ==
    {NoAttrs, Config(DefaultAxes, 3, NoneVal, DefaultTriangle, 0)}
    \cup {Config(DefaultAxes, at, up, IF up = IntVal(4) THEN tr ELSE DefaultTriangle, 1) :
            at \in AimAtValues, up \in AimUpAtValues, tr \in TriangleChoices}
    \cup {Config(ax, at, up, DefaultTriangle, 1) :
            ax \in AxesChoices, at \in {0, 3}, up \in {NoneVal, IntVal(1), IntVal(2)}}

Hosts == [noneRaises : BOOLEAN, fallbackAxis : {1, 2}]

NoInstance ==
    [joint |-> NoNode, orient_values |-> EmptyDict,
     aim_vector |-> <<1, 0, 0>>, up_vector |-> <<0, 1, 0>>,
     world_up_vector |-> <<0, 1, 0>>, aim_at |-> IntVal(3), aim_up_at |-> IntVal(0),
     child |-> NoNode, has_child2 |-> FALSE, child2 |-> NoNode, grand_child |-> NoNode,
     parent |-> NoNode, grand_parent |-> NoNode,
     delete_later |-> <<>>, up_space_type |-> "vector"]

Snapshot ==
    [parentOf |-> parentOf, attrs |-> attrs, pos |-> pos, rot |-> rot,
     rotZero |-> rotZero, temps |-> temps, oj |-> oj]

\* last: the operation that led to this state
\*   op, joint, outcome, warn, steps, created, aim: of that operation
\*   pre: the scene and the instance before it
\*   seq: the run() calls on the joint in a row (0, 1, 2 for two or more)
\*   prevRot: the world rotation of the joint after the run() before this one
\*   calls: the calls on the instance so far
\*   set: the helpers the setters of the instance created since the run()
\*        before the last
NoLast ==
    [op |-> "none", joint |-> NoNode, outcome |-> "none", warn |-> {}, steps |-> <<>>,
     created |-> {}, aim |-> NoAim, pre |-> Snapshot, calls |-> 0, seq |-> 0,
     prevRot |-> IdentityRot, set |-> {}]

\* batch: the orient_with_attributes call of the scene
\*   force: force_orient_attributes; roots: the objects of the outermost call
\*   stack: the frames of the recursion, the innermost last; a frame is the list
\*     objs of its call, the index i of the object of the current iteration, the
\*     place pc in the loop body ("test": line 236, "orient": line 248) and the
\*     local variable oriented
\*   status: "idle", "running", "returned", "raised"; result: the value returned
\*   visited: the objects of the iterations so far, in order
\*   ran: the objects passed to OrientJoint.run(), with the outcome
\*   added: the objects add_orient_attributes was called for
\*   pre: the scene when the call began
NoBatch ==
    [active |-> FALSE, force |-> FALSE, roots |-> <<>>, stack |-> <<>>, status |-> "idle",
     result |-> FALSE, visited |-> <<>>, ran |-> <<>>, added |-> {}, pre |-> <<>>]

\* One joint of a scene of joints (the last node is a plain transform) is given
\* a configuration and an OrientJoint instance
Init ==
    /\ parentOf \in Forests
    /\ nodeType = [n \in Nodes |-> IF n = NumNodes THEN "transform" ELSE "joint"]
    /\ pos = [n \in Nodes |-> ScenePosition(parentOf, n)]
    /\ rot = [n \in Nodes |-> SceneRotation(n)]
    /\ rotZero = [n \in Nodes |-> n % 2 = 0]
    /\ temps = {}
    /\ host \in Hosts
    /\ \E j \in Nodes, c \in ConfigChoices :
        /\ attrs = [n \in Nodes |-> IF n = j THEN c ELSE NoAttrs]
        /\ oj = OrientJoint(parentOf, j)
    /\ last = NoLast
    /\ batch = NoBatch

\* The scene and the record of the call after run() on the instance o gave r
ApplyRun(o, r) ==
    /\ parentOf' = r.s.parentOf
    /\ attrs' = r.s.attrs
    /\ pos' = r.s.pos
    /\ rot' = r.s.rot
    /\ rotZero' = r.s.rotZero
    /\ temps' = r.s.temps
    /\ oj' = r.s.o
    /\ last' = [op |-> "run", joint |-> o.joint, outcome |-> r.outcome,
                warn |-> r.s.warn, steps |-> r.s.steps,
                created |-> r.s.created, aim |-> r.s.aim,
                pre |-> [Snapshot EXCEPT !.oj = o],
                calls |-> last.calls + 1,
                seq |-> IF last.seq = 0 THEN 1 ELSE 2,
                prevRot |-> rot[o.joint],
                set |-> IF last.op = "run" THEN {} ELSE last.set]
AfterRun(o) == \E r \in {run(o)} : ApplyRun(o, r)

\* orient.run() on the instance of the scene
Run ==
    /\ oj.joint # NoNode
    /\ last.calls < MaxRuns
    /\ AfterRun(oj)
    /\ UNCHANGED <<nodeType, host, batch>>

\* orient = OrientJoint(joint_name=joint); orient.run(): a new instance for the
\* joint, after an earlier run
RunFresh ==
    /\ oj.joint # NoNode
    /\ last.op = "run"
    /\ last.calls < MaxRuns
    /\ AfterRun(OrientJoint(parentOf, oj.joint))
    /\ UNCHANGED <<nodeType, host, batch>>

\* OrientJointAttributes.add_orient_attributes(joint) on the joint of the instance
AddOrientAttributes ==
    /\ oj.joint # NoNode
    /\ last.op = "none"
    /\ attrs' = add_orient_attributes(attrs, oj.joint)
    /\ last' = [last EXCEPT !.op = "add_orient_attributes", !.joint = oj.joint,
                            !.outcome = "done", !.warn = {}, !.steps = <<>>,
                            !.created = {}, !.aim = NoAim, !.pre = Snapshot, !.seq = 0]
    /\ UNCHANGED <<parentOf, nodeType, pos, rot, rotZero, temps, host, oj, batch>>

Next == Run \/ RunFresh \/ AddOrientAttributes

Spec == Init /\ [][Next]_vars

----------------------------------------------------------------------------
(* The instance on its own: the setters and run() on one OrientJoint, in a  *)
(* scene whose hierarchy may change after the instance was made.            *)

\* The calls on the instance
MaxCalls == 3

\* The scene and the record of the call after the setter op on the instance left
\* the call state e
ApplySetter(op, e) ==
    /\ temps' = e.temps
    /\ oj' = e.o
    /\ last' = [last EXCEPT !.op = op, !.joint = oj.joint,
                            !.outcome = IF e.raised THEN "raised" ELSE "done",
                            !.warn = e.warn, !.steps = e.steps, !.created = e.created,
                            !.aim = NoAim, !.pre = Snapshot, !.seq = 0,
                            !.calls = @ + 1,
                            !.set = (IF last.op = "run" THEN {} ELSE @) \cup e.created]
    /\ UNCHANGED <<parentOf, nodeType, attrs, pos, rot, rotZero, host, batch>>

\* The indices given to set_aim_at and to set_aim_up_at
SetAimAtValues == {0, 3}
SetAimUpAtValues == {0, 2, 5}

\* OrientJoint.set_aim_at(index)
set_aim_at ==
    /\ last.calls < MaxCalls
    /\ \E index \in SetAimAtValues :
         \E e \in {Eval(_get_aim_at(CallState(oj), index), SetAimAt)} :
            ApplySetter("set_aim_at", e)

\* OrientJoint.set_aim_up_at(index)
set_aim_up_at ==
    /\ last.calls < MaxCalls
    /\ \E index \in SetAimUpAtValues :
         \E e \in {Eval(_get_aim_up_at(CallState(oj), IntVal(index)), SetAimUpAt)} :
            ApplySetter("set_aim_up_at", e)

\* OrientJoint.set_aim_up_at_object(transform_name), with the parent of the joint
set_aim_up_at_object ==
    /\ last.calls < MaxCalls
    /\ parentOf[oj.joint] # NoNode
    /\ \E e \in {Eval(_get_local_up_group(CallState(oj), parentOf[oj.joint]), SetAimUpAt)} :
         ApplySetter("set_aim_up_at_object",
                     IF e.raised THEN e
                     ELSE [e EXCEPT !.o.up_space_type = "objectrotation",
                                    !.o.world_up_vector = <<0, 1, 0>>])

\* orient.run() on the instance
InstRun ==
    /\ oj.joint # NoNode
    /\ last.calls < MaxCalls
    /\ AfterRun(oj)
    /\ UNCHANGED <<nodeType, host, batch>>

\* orient = OrientJoint(joint_name=joint); orient.run(): a new instance for the
\* joint, after a run() of the instance before it
InstRunFresh ==
    /\ oj.joint # NoNode
    /\ last.op = "run"
    /\ last.calls < MaxCalls
    /\ AfterRun(OrientJoint(parentOf, oj.joint))
    /\ UNCHANGED <<nodeType, host, batch>>

\* The user parents a node to the world (maya.cmds.parent(c, world=True)) after
\* the instance was made and before its first call
Unparent ==
    /\ last.op \in {"none", "parent"}
    /\ \E c \in Nodes :
         /\ parentOf[c] # NoNode
         /\ parentOf' = [parentOf EXCEPT ![c] = NoNode]
    /\ last' = [last EXCEPT !.op = "parent"]
    /\ UNCHANGED <<nodeType, attrs, pos, rot, rotZero, temps, host, oj, batch>>

\* The hierarchies of the instance: those of the first three nodes, any further
\* node below the node before it
InstForests == {P \in Forests : \A n \in Nodes : n > 3 => P[n] = n - 1}
\* The configurations of the joint: none, the one of add_orient_attributes, that
\* one inactive, and world X with the world up vector or the child's position
InstConfigs ==
    {NoAttrs, DefaultConfig, [DefaultConfig EXCEPT !["active"] = 0],
     Config(DefaultAxes, 0, IntVal(0), DefaultTriangle, 1),
     Config(DefaultAxes, 0, IntVal(2), DefaultTriangle, 1)}

InitInst ==
    /\ parentOf \in InstForests
    /\ nodeType = [n \in Nodes |-> "joint"]
    /\ pos = [n \in Nodes |-> ScenePosition(parentOf, n)]
    /\ rot = [n \in Nodes |-> SceneRotation(n)]
    /\ rotZero = [n \in Nodes |-> n % 2 = 0]
    /\ temps = {}
    /\ host \in {h \in Hosts : h.fallbackAxis = 1}
    /\ \E j \in {1, 2}, c \in InstConfigs :
        /\ attrs = [n \in Nodes |-> IF n = j THEN c ELSE NoAttrs]
        /\ oj = OrientJoint(parentOf, j)
    /\ last = NoLast
    /\ batch = NoBatch

NextInst == InstRun \/ InstRunFresh \/ set_aim_at \/ set_aim_up_at \/ set_aim_up_at_object \/ Unparent

SpecInst == InitInst /\ [][NextInst]_vars

----------------------------------------------------------------------------
(* The aim solve on its own: run() on the middle joint of a chain, over     *)
(* every pair of aim and up axes, with bones that leave the lattice.        *)

\* The joint of the chain that is oriented
AimJoint == 2
\* Where the child of the joint stands, from the joint
BoneChoices == {<<1, 0, 0>>, <<0, 1, 0>>, <<1, 1, 0>>, <<1, 2, 2>>}
\* aimAxis and upAxis: the six signed axes and none
AxisValues == 0..6
\* worldUpAxis: +Y, +X and -Z
WorldUpAxisValues == {1, 0, 5}
\* aimAt: the world axes, child and parent
AimSolveAimAt == 0..4
\* aimUpAt: the world up vector, the parent's rotation, the child's position
AimSolveAimUpAt == 0..2

InitAim ==
    /\ parentOf = [n \in Nodes |-> n - 1]
    /\ nodeType = [n \in Nodes |-> "joint"]
    /\ \E v \in BoneChoices :
         pos = [n \in Nodes |-> IF n = AimJoint + 1
                                THEN VAdd(ScenePosition(parentOf, AimJoint), v)
                                ELSE ScenePosition(parentOf, n)]
    /\ rot = [n \in Nodes |-> SceneRotation(n)]
    /\ rotZero = [n \in Nodes |-> n % 2 = 0]
    /\ temps = {}
    /\ host \in {h \in Hosts : ~h.noneRaises}
    /\ \E a \in AxisValues, u \in AxisValues, w \in WorldUpAxisValues,
          at \in AimSolveAimAt, up \in AimSolveAimUpAt :
         attrs = [n \in Nodes |->
                    IF n = AimJoint
                    THEN Config(<<a, u, w>>, at, IntVal(up), DefaultTriangle, 1)
                    ELSE NoAttrs]
    /\ oj = OrientJoint(parentOf, AimJoint)
    /\ last = NoLast
    /\ batch = NoBatch

NextAim == Run

SpecAim == InitAim /\ [][NextAim]_vars

----------------------------------------------------------------------------
(* OrientJointAttributes.orient_with_attributes, one step per part of an   *)
(* iteration of its loop; the recursive calls are the frames of a stack.   *)

\* orient_with_attributes whose loop body has no continue: a node without
\* ORIENT_INFO goes on to the node type test when attributes are not forced
Visit_without_continue(A, P, obj, force) ==
    IF "ORIENT_INFO" \notin DOMAIN A[obj] /\ force
    THEN [attrs |-> add_orient_attributes(A, obj), added |-> TRUE,
          recurse |-> FALSE, orient |-> TRUE]
    ELSE [attrs |-> A, added |-> FALSE, recurse |-> FALSE, orient |-> TRUE]

\* orient_with_attributes that calls add_orient_attributes for every object
\* when attributes are forced, whether or not the object has ORIENT_INFO
Visit_force_all(A, P, obj, force) ==
    LET relatives == listRelatives(P, obj)
    IN  IF force
        THEN [attrs |-> add_orient_attributes(A, obj), added |-> TRUE,
              recurse |-> FALSE, orient |-> TRUE]
        ELSE IF "ORIENT_INFO" \notin DOMAIN A[obj]
        THEN [attrs |-> A, added |-> FALSE,
              recurse |-> relatives # <<>>, orient |-> FALSE]
        ELSE [attrs |-> A, added |-> FALSE, recurse |-> FALSE, orient |-> TRUE]

\* Lines 236-246 for the object obj: the attributes after them, whether
\* add_orient_attributes was called, whether the relatives are walked here
\* (followed by continue), whether the iteration goes on to the node type test
Visit(A, P, obj, force) ==
    LET relatives == listRelatives(P, obj)
    IN  IF "ORIENT_INFO" \notin DOMAIN A[obj]
        THEN IF force
             THEN [attrs |-> add_orient_attributes(A, obj), added |-> TRUE,
                   recurse |-> FALSE, orient |-> TRUE]
             ELSE [attrs |-> A, added |-> FALSE,
                   recurse |-> relatives # <<>>, orient |-> FALSE]
        ELSE [attrs |-> A, added |-> FALSE, recurse |-> FALSE, orient |-> TRUE]

Frame(objs) == [objs |-> objs, i |-> 1, pc |-> "test", oriented |-> FALSE]
Top == batch.stack[Len(batch.stack)]
\* The stack with its top frame replaced by f
WithTop(f) == [batch.stack EXCEPT ![Len(batch.stack)] = f]
\* NextIteration that puts the relatives at the end of the list of the call it
\* is in, after the remaining objects, in place of the recursive call
NextIteration_siblings_first(f, walk, relatives) ==
    IF walk
    THEN WithTop([f EXCEPT !.i = @ + 1, !.pc = "test", !.oriented = TRUE,
                           !.objs = @ \o relatives])
    ELSE WithTop([f EXCEPT !.i = @ + 1, !.pc = "test"])

\* The top frame at its next iteration; with walk, after the recursive call
\* on the relatives, whose frame is pushed
NextIteration(f, walk, relatives) ==
    IF walk
    THEN Append(WithTop([f EXCEPT !.i = @ + 1, !.pc = "test", !.oriented = TRUE]),
                Frame(relatives))
    ELSE WithTop([f EXCEPT !.i = @ + 1, !.pc = "test"])

\* The lists given as objects_to_orient: none (the top DAG nodes are taken), or one node
RootChoices == {<<>>} \cup {<<n>> : n \in Nodes}

\* OrientJointAttributes.orient_with_attributes(objects, force): the call begins
OrientWithAttributes ==
    /\ batch.status = "idle"
    /\ \E objects \in RootChoices, force \in BOOLEAN :
        batch' = [NoBatch EXCEPT
                    !.active = TRUE, !.force = force, !.status = "running",
                    !.roots = IF objects = <<>> THEN get_top_dag_nodes ELSE objects,
                    !.stack = <<Frame(IF objects = <<>> THEN get_top_dag_nodes ELSE objects)>>,
                    !.pre = Snapshot]
    /\ UNCHANGED <<parentOf, nodeType, attrs, pos, rot, rotZero, temps, host, oj, last>>

\* An iteration begins: lines 236-246
BatchVisit ==
    /\ batch.status = "running"
    /\ Top.i <= Len(Top.objs) /\ Top.pc = "test"
    /\ LET obj == Top.objs[Top.i]
           v == Visit(attrs, parentOf, obj, batch.force)
       IN  /\ attrs' = v.attrs
           /\ batch' = [batch EXCEPT
                          !.visited = Append(@, obj),
                          !.added = IF v.added THEN @ \cup {obj} ELSE @,
                          !.stack = IF v.orient THEN WithTop([Top EXCEPT !.pc = "orient"])
                                    ELSE NextIteration(Top, v.recurse,
                                                       listRelatives(parentOf, obj))]
    /\ UNCHANGED <<parentOf, nodeType, pos, rot, rotZero, temps, host, oj, last>>

\* Lines 248-253 on a joint or a transform: OrientJoint(obj).run(), then the
\* relatives listed before it; an exception of run() ends every call of the stack
BatchOrient ==
    /\ batch.status = "running"
    /\ Top.i <= Len(Top.objs) /\ Top.pc = "orient"
    /\ nodeType[Top.objs[Top.i]] \in {"joint", "transform"}
    /\ LET obj == Top.objs[Top.i]
           relatives == listRelatives(parentOf, obj)
           o == OrientJoint(parentOf, obj)
       IN  \E r \in {run(o)} :
            /\ ApplyRun(o, r)
            /\ batch' = IF r.outcome = "raised"
                        THEN [batch EXCEPT !.ran = Append(@, <<obj, r.outcome>>),
                                           !.status = "raised", !.stack = <<>>]
                        ELSE [batch EXCEPT !.ran = Append(@, <<obj, r.outcome>>),
                                           !.stack = NextIteration(Top, relatives # <<>>,
                                                                   relatives)]
    /\ UNCHANGED <<nodeType, host>>

\* Line 248 on a node of another type: nothing is done with it or below it
BatchPass ==
    /\ batch.status = "running"
    /\ Top.i <= Len(Top.objs) /\ Top.pc = "orient"
    /\ nodeType[Top.objs[Top.i]] \notin {"joint", "transform"}
    /\ batch' = [batch EXCEPT !.stack = NextIteration(Top, FALSE, <<>>)]
    /\ UNCHANGED <<parentOf, nodeType, attrs, pos, rot, rotZero, temps, host, oj, last>>

\* The loop of the innermost call is over: it returns oriented
BatchReturn ==
    /\ batch.status = "running"
    /\ Top.i > Len(Top.objs)
    /\ batch' = IF Len(batch.stack) = 1
                THEN [batch EXCEPT !.stack = <<>>, !.status = "returned",
                                   !.result = Top.oriented]
                ELSE [batch EXCEPT !.stack = SubSeq(@, 1, Len(@) - 1)]
    /\ UNCHANGED <<parentOf, nodeType, attrs, pos, rot, rotZero, temps, host, oj, last>>

\* The hierarchies of a batch: a parent is one of the two nodes before its child
BatchForests == {P \in Forests : \A n \in Nodes : P[n] = NoNode \/ P[n] >= n - 2}
\* The node types of a batch: joints with a last node that is a transform or a
\* shape, or with a first node that is an ikHandle
BatchTypes ==
    {[n \in Nodes |-> IF n = NumNodes THEN t ELSE "joint"] : t \in {"transform", "mesh"}}
    \cup {[n \in Nodes |-> IF n = 1 THEN "ikHandle" ELSE "joint"]}
\* The configurations of a node of a batch: none, the one add_orient_attributes
\* leaves on a node, that one made inactive
BatchConfigs == {NoAttrs, DefaultConfig, [DefaultConfig EXCEPT !["active"] = 0]}

\* A scene of nodes some of which carry orient attributes; no call has begun
InitBatch ==
    /\ parentOf \in BatchForests
    /\ nodeType \in BatchTypes
    /\ pos = [n \in Nodes |-> ScenePosition(parentOf, n)]
    /\ rot = [n \in Nodes |-> SceneRotation(n)]
    /\ rotZero = [n \in Nodes |-> n % 2 = 0]
    /\ temps = {}
    /\ host \in {h \in Hosts : h.fallbackAxis = 1}
    /\ attrs \in {A \in [Nodes -> BatchConfigs] : \A n \in Nodes : is_transform(n) \/ A[n] = NoAttrs}
    /\ oj = NoInstance
    /\ last = NoLast
    /\ batch = NoBatch

NextBatch == OrientWithAttributes \/ BatchVisit \/ BatchOrient \/ BatchPass \/ BatchReturn

SpecBatch == InitBatch /\ [][NextBatch]_vars

\* The lists of two objects given as objects_to_orient, in either order: a
\* selection of nodes, which may hold a node and a node below it
RootLists == {<<a, b>> : a, b \in {n \in Nodes : n <= 3}} \ {<<n, n>> : n \in Nodes}

\* OrientJointAttributes.orient_with_attributes(objects, force) on a list of
\* two objects: the call begins
OrientWithAttributesList ==
    /\ batch.status = "idle"
    /\ \E objects \in RootLists, force \in BOOLEAN :
        batch' = [NoBatch EXCEPT
                    !.active = TRUE, !.force = force, !.status = "running",
                    !.roots = objects, !.stack = <<Frame(objects)>>,
                    !.pre = Snapshot]
    /\ UNCHANGED <<parentOf, nodeType, attrs, pos, rot, rotZero, temps, host, oj, last>>

NextList ==
    OrientWithAttributesList \/ BatchVisit \/ BatchOrient \/ BatchPass \/ BatchReturn

SpecList == InitBatch /\ [][NextList]_vars

----------------------------------------------------------------------------
(* Properties of OrientJoint.run *)

\* The last operation was a run() of the joint
Ran == last.op = "run"
\* The configuration the joint had when the last run() began
PreAttrs == last.pre.attrs[last.joint]
\* The relatives of the joint: parent, transform children, first grandchild
Relatives(P, j) ==
    LET kids == listRelativesTransform(P, j)
        grand == IF kids = <<>> THEN <<>> ELSE listRelatives(P, kids[1])
    IN  ({P[j]} \ {NoNode}) \cup {kids[i] : i \in DOMAIN kids}
        \cup (IF grand = <<>> THEN {} ELSE {grand[1]})
\* The kinds of the helpers the last run() created
CreatedKinds == {nm[1] : nm \in last.created}

\* C1: once run() has returned (the joint oriented, or skipped as inactive, or
\* oriented without an up target because a triangle anchor is missing), no helper
\* node created during that call exists in the scene
CleanupCompleteness ==
    (Ran /\ last.outcome \in {"done", "skipped"}) =>
        last.created \cap TempNames(temps) = {}
CleanupCompletenessWitness ==
    /\ Ran /\ last.outcome = "done"
    /\ {"pin", "pin_cns", "position_group", "plane_grp", "aim_cns"} \subseteq CreatedKinds
    /\ last.created \cap TempNames(temps) = {}

\* C2 (as claimed): when run() fails after the pin step, every helper recorded in
\* the deletion list is deleted before the failure leaves run()
CleanupOnFailure ==
    (Ran /\ last.outcome = "raised" /\ \E i \in DOMAIN last.steps : last.steps[i] = "pin") =>
        \A i \in DOMAIN oj.delete_later : ~TempExists(temps, oj.delete_later[i])

\* C3: after a run() that completes, the parent, the children and the grandchild of
\* the joint are at the world position they had before the call
WorldPin ==
    (Ran /\ last.outcome \in {"done", "skipped"}) =>
        \A n \in Relatives(last.pre.parentOf, last.joint) : pos[n] = last.pre.pos[n]
WorldPinWitness ==
    /\ Ran /\ last.outcome = "done"
    /\ rot[last.joint] # last.pre.rot[last.joint]
    /\ Cardinality(Relatives(last.pre.parentOf, last.joint)) >= 2
    /\ \A n \in Relatives(last.pre.parentOf, last.joint) : pos[n] = last.pre.pos[n]

\* C4: run() on a joint whose active attribute exists and is false only warns: no
\* exception, no step (freeze, pin), no helper node, and the rotation, the
\* hierarchy, the attributes and the instance are as before the call
InactiveNoOp ==
    (Ran /\ "active" \in DOMAIN PreAttrs /\ PreAttrs["active"] = 0) =>
        /\ last.outcome = "skipped"
        /\ last.warn = {"inactive"}
        /\ last.steps = <<>> /\ last.created = {}
        /\ [Snapshot EXCEPT !.oj = last.pre.oj] = last.pre
        /\ oj = last.pre.oj
InactiveNoOpWitness ==
    /\ Ran /\ "active" \in DOMAIN PreAttrs /\ PreAttrs["active"] = 0
    /\ last.outcome = "skipped" /\ last.warn = {"inactive"}
    /\ ~rotZero[last.joint]

\* C7 (as claimed): run() on an active joint with aimAt=child (3) and no child
\* warns, raises nothing and leaves the rotation of the joint unchanged
MissingChildSkip ==
    (/\ Ran
     /\ "aimAt" \in DOMAIN PreAttrs /\ PreAttrs["aimAt"] = 3 /\ PreAttrs["active"] = 1
     /\ listRelativesTransform(last.pre.parentOf, last.joint) = <<>>) =>
        /\ last.outcome = "done"
        /\ last.warn # {}
        /\ rot[last.joint] = last.pre.rot[last.joint]

\* C8: after run() twice in succession on the joint, its world rotation is the one
\* it had after the first run
Idempotence == (Ran /\ last.seq = 2) => rot[last.joint] = last.prevRot
IdempotenceWitness ==
    /\ Ran /\ last.seq = 2 /\ last.outcome = "done" /\ is_joint(last.joint)
    /\ rot[last.joint] = last.prevRot
    /\ rot[last.joint] # SceneRotation(last.joint)

\* C9 (as claimed): after add_orient_attributes on a joint or a transform the node
\* has aimAxis, upAxis, worldUpAxis, aimAt, aimUpAt, triangleTop, triangleMid,
\* triangleBottom and active, with the values +X (0), +Y (1), +Y (1),
\* localParent (5), world (0), parent (1), self (2), child (3) and true (1)
DefaultConfiguration ==
    (last.op = "add_orient_attributes" /\ is_transform(last.joint)) =>
        LET a == attrs[last.joint]
        IN  /\ {OrientAttributes[i][1] : i \in DOMAIN OrientAttributes} \subseteq DOMAIN a
            /\ a["aimAxis"] = 0 /\ a["upAxis"] = 1 /\ a["worldUpAxis"] = 1
            /\ a["aimAt"] = 5 /\ a["aimUpAt"] = 0
            /\ a["triangleTop"] = 1 /\ a["triangleMid"] = 2 /\ a["triangleBottom"] = 3
            /\ a["active"] = 1

\* C10: a joint at the origin with aimAxis=+X, upAxis=+Y, worldUpAxis=+Y,
\* aimAt=worldX and aimUpAt=world has the identity rotation after run()
IsRemapCase ==
    /\ Ran /\ is_joint(last.joint) /\ last.pre.pos[last.joint] = Zero3
    /\ PreAttrs = Config(DefaultAxes, 0, IntVal(0), DefaultTriangle, 1)
AxisRemap == IsRemapCase => (last.outcome = "done" /\ rot[last.joint] = IdentityRot)
AxisRemapWitness ==
    /\ IsRemapCase /\ last.outcome = "done"
    /\ last.pre.rot[last.joint] # IdentityRot /\ rot[last.joint] = IdentityRot

----------------------------------------------------------------------------
(* Properties of OrientJointAttributes.orient_with_attributes *)

RECURSIVE Below(_, _)
\* The nodes of the hierarchies under the nodes of the set R
Below(P, R) ==
    LET kids == {c \in Nodes : P[c] \in R} \ R
    IN  IF kids = {} THEN R ELSE Below(P, R \cup kids)
\* The nodes of the iterations so far; the nodes run() oriented
Visited == {batch.visited[i] : i \in DOMAIN batch.visited}
Oriented == {batch.ran[i][1] : i \in {k \in DOMAIN batch.ran : batch.ran[k][2] = "done"}}
\* The nodes that had orient attributes and were active when the call began
ConfiguredActive ==
    {n \in Nodes : /\ "ORIENT_INFO" \in DOMAIN batch.pre.attrs[n]
                   /\ batch.pre.attrs[n]["active"] = 1}

\* C5 (as claimed): when orient_with_attributes(roots) has returned, every node
\* under the roots was visited and the nodes oriented are exactly the nodes under
\* the roots that carried orient attributes and were active
BatchCompleteness ==
    (batch.status = "returned" /\ ~batch.force) =>
        LET all == Below(parentOf, {batch.roots[i] : i \in DOMAIN batch.roots})
        IN  /\ Visited = all
            /\ Oriented = ConfiguredActive \cap all

\* C6: throughout an orient_with_attributes call that does not force attributes, a
\* node that had no ORIENT_INFO when the call began is not passed to run(), gets
\* no attribute, and keeps its world rotation
ConfigurationOptional ==
    (batch.active /\ ~batch.force) =>
        \A n \in Nodes :
            "ORIENT_INFO" \notin DOMAIN batch.pre.attrs[n] =>
                /\ \A i \in DOMAIN batch.ran : batch.ran[i][1] # n
                /\ n \notin batch.added
                /\ attrs[n] = batch.pre.attrs[n]
                /\ rot[n] = batch.pre.rot[n]
\* a call has returned that visited a node without attributes below a node it oriented
ConfigurationOptionalWitness ==
    /\ batch.status = "returned" /\ ~batch.force
    /\ \E n \in Visited :
        /\ "ORIENT_INFO" \notin DOMAIN batch.pre.attrs[n]
        /\ attrs[n] = NoAttrs
        /\ parentOf[n] \in Oriented
        /\ rot[parentOf[n]] # batch.pre.rot[parentOf[n]]

----------------------------------------------------------------------------
(* The aim solve                                                            *)

\* v is one of the six signed coordinate axes
IsSignedAxis(v) == v \in {UnitAxis(k) : k \in 0..2} \cup {VScale(-1, UnitAxis(k)) : k \in 0..2}

\* The rotation R has three columns that are directions (each stands for the
\* unit vector along it), none zero, and mutually perpendicular
Orthonormal(R) ==
    LET X == R[1]
        Y == R[2]
        Z == RotZ(R)
    IN  /\ X # Zero3 /\ Y # Zero3 /\ Z # Zero3
        /\ Direction(X) = X /\ Direction(Y) = Y
        /\ VDot(X, Y) = 0 /\ VDot(Y, Z) = 0 /\ VDot(Z, X) = 0

\* The aimConstraint call of the last run had an up direction that is not along
\* the aim direction
NonDegenerate == last.aim.made /\ VCross(last.aim.d, last.aim.p) # Zero3

DegenerateY ==
    /\ last.aim.made
    /\ last.aim.d = <<0, 1, 0>>
    /\ last.aim.worldUpType = "vector"
    /\ last.aim.worldUpVector = <<0, 1, 0>>
    /\ IsSignedAxis(last.aim.aimVector)

----------------------------------------------------------------------------
(* The steps of run()                                                       *)

\* The steps of run() on an active joint, in the order of lines 471-497
RunOrder ==
    <<"freeze", "relatives", "pin", "rotateAxis", "targets", "aim", "cleanup", "freeze">>

\* The steps of the last run() before the exception, if one was raised
StepsTaken ==
    IF last.outcome = "raised" THEN SubSeq(last.steps, 1, Len(last.steps) - 1)
    ELSE last.steps

\* C13: run() on an active joint freezes, resolves the relatives again, pins
\* them, zeroes the rotate axis, resolves the aim and up targets, applies the
\* aim, cleans up and freezes again, in that order: the pins exist when the aim
\* is applied, the helpers are deleted only after it, and the last freeze
\* follows the cleanup.
StepOrdering ==
    (Ran /\ last.outcome # "skipped") =>
        /\ Len(StepsTaken) <= Len(RunOrder)
        /\ StepsTaken = SubSeq(RunOrder, 1, Len(StepsTaken))
        /\ last.outcome = "done" =>
              /\ last.steps = RunOrder
              /\ last.aim.made
              /\ last.created \subseteq last.aim.helpers
              /\ Relatives(last.pre.parentOf, last.joint) # {} =>
                    \E nm \in last.created : nm[1] = "pin_cns"
              /\ TempNames(temps) \cap last.created = {}

\* a run to the end on a joint with relatives and an up target node
StepOrderingWitness ==
    /\ Ran /\ last.outcome = "done"
    /\ last.steps = RunOrder
    /\ Cardinality(Relatives(last.pre.parentOf, last.joint)) >= 2
    /\ \E nm \in last.created : nm[1] = "pin_cns"
    /\ last.aim.up # NoTemp

----------------------------------------------------------------------------
(* The up and aim targets                                                   *)

\* The relative of joint j a triangle anchor value names: 0 grandparent, 1 parent,
\* 2 the joint, 3 child, 4 grandchild (NoNode when j has no such relative)
TriangleRole(P, j, i) ==
    LET kids == listRelativesTransform(P, j)
        grand == IF kids = <<>> THEN <<>> ELSE listRelatives(P, kids[1])
    IN  CASE i = 0 -> IF P[j] = NoNode THEN NoNode ELSE P[P[j]]
          [] i = 1 -> P[j]
          [] i = 2 -> j
          [] i = 3 -> IF kids = <<>> THEN NoNode ELSE kids[1]
          [] i = 4 -> IF grand = <<>> THEN NoNode ELSE grand[1]

\* The last run() was on an active joint whose aimUpAt is the value v
UpSourceIs(v) ==
    /\ Ran
    /\ "aimUpAt" \in DOMAIN PreAttrs
    /\ PreAttrs["aimUpAt"] = v
    /\ PreAttrs["active"] = 1

\* The last run() was on a joint whose up source is the triangle plane (the value
\* 4 that _get_aim_up_at takes for it) and that lacks a relative one of its
\* triangle anchors names
TriangleAnchorMissing ==
    /\ UpSourceIs(4)
    /\ \E a \in {"triangleTop", "triangleMid", "triangleBottom"} :
          TriangleRole(last.pre.parentOf, last.joint, PreAttrs[a]) = NoNode

\* C14: when the up source is the triangle plane and a triangle anchor is
\* missing, run() logs a warning, applies no aim (the rotation of the joint is
\* left as it was) and still deletes every helper it created.
TriangleDegenerate ==
    TriangleAnchorMissing =>
        /\ "triangle" \in last.warn
        /\ last.outcome # "raised"
        /\ ~last.aim.made
        /\ rot[last.joint] = last.pre.rot[last.joint]
        /\ temps = {}

\* The last run() was on a joint whose up source is the second child's position
\* (2ndChildPosition, the fifth name of the aimUpAt enum: the value 4) and that
\* has fewer than two transform children
NoSecondChild ==
    /\ UpSourceIs(4)
    /\ Len(listRelativesTransform(last.pre.parentOf, last.joint)) < 2

\* C15: when the up source is the second child's position and the joint has no
\* second child, run() logs the warning for it without raising, and the aim is
\* applied with no up target node and the up type 'vector' (the world up
\* vector), not 'object'.
SecondChildFallback ==
    NoSecondChild =>
        /\ "child2" \in last.warn
        /\ last.outcome # "raised"
        /\ last.aim.made
        /\ last.aim.up = NoTemp
        /\ last.aim.worldUpType = "vector"

\* The transform children of the joint of the last run(), as they were before it
PreChildren == listRelativesTransform(last.pre.parentOf, last.joint)

\* The up target of the last run() is what the aimUpAt value v stands for by its
\* name in the enum of the attribute: 0 world, 1 parentRotate, 2 childPosition,
\* 3 trianglePlane, 4 2ndChildPosition
UpTargetOf(v) ==
    LET up == last.aim.up
        type == last.aim.worldUpType
        P == last.pre.parentOf
    IN  CASE v = 0 -> up = NoTemp /\ type = "vector"
          [] v = 1 -> /\ up # NoTemp
                      /\ P[last.joint] # NoNode => up.r = last.pre.rot[P[last.joint]]
                      /\ type = "objectrotation"
          [] v = 2 -> /\ up # NoTemp
                      /\ PreChildren # <<>> => (up.p = last.pre.pos[PreChildren[1]] /\ up.off = Zero3)
                      /\ type = "object"
          [] v = 3 -> up # NoTemp /\ up.name[1] = "plane_grp" /\ type = "object"
          [] v = 4 -> /\ up # NoTemp
                      /\ Len(PreChildren) > 1 => (up.p = last.pre.pos[PreChildren[2]] /\ up.off = Zero3)
                      /\ type = "object"

\* The last run() applied the aim, on a joint that has the relative its aimUpAt
\* value v needs
UpTargetCase(v) ==
    /\ UpSourceIs(v)
    /\ last.aim.made
    /\ v = 1 => last.pre.parentOf[last.joint] # NoNode
    /\ v = 2 => PreChildren # <<>>
    /\ v = 3 => \A a \in {"triangleTop", "triangleMid", "triangleBottom"} :
                  TriangleRole(last.pre.parentOf, last.joint, PreAttrs[a]) # NoNode
    /\ v = 4 => Len(PreChildren) > 1

\* C16: the up target follows the name of the aimUpAt value: world gives no node
\* and the type 'vector'; parentRotate a node with the parent's rotation and
\* 'objectrotation'; childPosition a node at the child's position and 'object';
\* trianglePlane the plane node and 'object'; 2ndChildPosition a node at the
\* second child's position and 'object'.
UpTargetTable == \A v \in 0..4 : UpTargetCase(v) => UpTargetOf(v)

\* The names in a list of helper names
NamesIn(list) == {list[i] : i \in DOMAIN list}

\* The last run() was on an active joint whose aimAt is the value v, and applied
\* the aim
AimSourceIs(v) ==
    /\ Ran
    /\ "aimAt" \in DOMAIN PreAttrs
    /\ PreAttrs["aimAt"] = v
    /\ PreAttrs["active"] = 1
    /\ last.aim.made

TriangleAnchorMapping ==
    Ran =>
        \A i \in 0..4 : TriangleTransform(oj, i) = TriangleRole(parentOf, oj.joint, i)

----------------------------------------------------------------------------
(* The order of the walk of orient_with_attributes                          *)

\* Node n is strictly below node c in the hierarchy P
StrictlyBelow(P, n, c) == n # c /\ IsBelow(P, n, c)

VisitedUnconfigured ==
    {n \in Visited : /\ nodeType[n] \in {"joint", "transform"}
                     /\ "ORIENT_INFO" \notin DOMAIN batch.pre.attrs[n]}

\* Node n was given the attributes, then oriented by run(), and its relatives
\* were visited after it
ForcedVisit(n) ==
    /\ n \in batch.added
    /\ "ORIENT_INFO" \in DOMAIN attrs[n]
    /\ \E k \in DOMAIN batch.ran : batch.ran[k] = <<n, "done">>
    /\ \A c \in Nodes : parentOf[c] = n =>
          \E i, k \in DOMAIN batch.visited :
              i < k /\ batch.visited[i] = n /\ batch.visited[k] = c

\* C20: in a call with force_orient_attributes every visited joint or transform
\* that carried no orient attributes is given the default ones, is then oriented
\* by run() in the same visit, and has its children visited after it.
ForcedDefaults ==
    (batch.force /\ batch.status \in {"returned", "raised"}) =>
        \A n \in VisitedUnconfigured : ForcedVisit(n)

----------------------------------------------------------------------------
(* Errors                                                                   *)

\* Node n is neither a joint nor a transform
InvalidNode(n) == ~is_joint(n) /\ ~is_transform(n)

\* C21: add_orient_attributes or run() on a node that is neither a joint nor a
\* transform raises to the caller, and nothing else raises: once the attributes
\* were asked for such a node the batch call has ended with the exception, and a
\* batch call that ended with an exception was on such a node.
ErrorPropagation ==
    batch.active =>
        /\ (\E n \in batch.added : InvalidNode(n)) => batch.status = "raised"
        /\ batch.status = "raised" => InvalidNode(last.joint)

----------------------------------------------------------------------------
(* The instance                                                             *)

\* The second transform child of node j in the hierarchy P (NoNode without one)
SecondChild(P, j) ==
    LET kids == listRelativesTransform(P, j)
    IN  IF Len(kids) > 1 THEN kids[2] ELSE NoNode

\* C22: after run() has resolved the relatives again, the parent, grandparent,
\* child, second child and grandchild the instance holds are the relatives the
\* joint has in the scene, and none where the joint has no such relative, also
\* when the hierarchy changed after the instance was made.
FreshHierarchy ==
    (Ran /\ last.outcome = "done") =>
        /\ oj.parent = TriangleRole(parentOf, oj.joint, 1)
        /\ oj.grand_parent = TriangleRole(parentOf, oj.joint, 0)
        /\ oj.child = TriangleRole(parentOf, oj.joint, 3)
        /\ oj.child2 = SecondChild(parentOf, oj.joint)
        /\ oj.grand_child = TriangleRole(parentOf, oj.joint, 4)

----------------------------------------------------------------------------
(* The freeze                                                               *)

\* The scene after _freeze on the joint of the instance, from the scene as it is
Frozen == _freeze(CallState(oj))

----------------------------------------------------------------------------
(* The end of run()                                                         *)

\* The joint of the last run() and its relatives
JointAndRelatives == {last.joint} \cup Relatives(parentOf, last.joint)

\* C24: when run() has completed on an active joint, the local rotation of the
\* joint is zero, its orientation is the one the aim gave it (held by its joint
\* orient), and no aim or pin constraint is attached to the joint or to one of
\* its relatives.
BakedEndState ==
    (Ran /\ last.outcome = "done" /\ is_joint(last.joint)) =>
        /\ rotZero[last.joint]
        /\ rot[last.joint] = last.aim.R
        /\ \A n \in JointAndRelatives : ~Constrained(temps, n)

----------------------------------------------------------------------------
(* The deletion list                                                        *)

\* The last run() came to _cleanup
CleanupReached == Ran /\ {"cleanup", "raise:delete"} \cap NamesIn(last.steps) # {}

\* C25: when _cleanup deletes the deletion list, every node it names exists (the
\* delete does not fail), and what the list held when run() began was put there
\* by the setters called since the run() before: it holds no entry of an
\* earlier run.
DeletionList ==
    CleanupReached =>
        /\ "raise:delete" \notin NamesIn(last.steps)
        /\ NamesIn(last.pre.oj.delete_later) \subseteq last.set
        /\ Len(last.pre.oj.delete_later) <= Cardinality(last.set)

----------------------------------------------------------------------------
(* The helpers of the setters                                               *)

\* C26: once run() has returned, however it went, no helper is left in the scene
\* that a setter of the instance created before that run().
SetterTemporaries ==
    Ran => TempNames(temps) \cap last.set = {}

----------------------------------------------------------------------------
(* The up target and the up space type                                      *)

\* C27: whenever run() has called the aim constraint, the up space type it
\* passed is 'vector' exactly when it passed no up target, and with the type
\* 'object' or 'objectrotation' the up target it passed is a node of the scene.
UpTypeAgrees ==
    (Ran /\ last.aim.made) =>
        /\ (last.aim.worldUpType = "vector") <=> (last.aim.up = NoTemp)
        /\ last.aim.worldUpType \in {"object", "objectrotation"} =>
                last.aim.up.name \in last.aim.helpers

----------------------------------------------------------------------------
(* The result of the batch                                                  *)

\* C28: orient_with_attributes returns True exactly when OrientJoint.run() was
\* called for at least one node during the call.
BatchResultFlag ==
    batch.status = "returned" => (batch.result <=> batch.ran # <<>>)

----------------------------------------------------------------------------
(* The visits of the batch                                                  *)

\* C29: during one call of orient_with_attributes OrientJoint.run() is called at
\* most once for a node, whether the node is one of the objects given or is
\* reached from its parent; the walk that calls it comes to an end on every
\* forest.
SingleVisit ==
    batch.active =>
        \A i, k \in DOMAIN batch.ran :
            i # k => batch.ran[i][1] # batch.ran[k][1]

----------------------------------------------------------------------------
(* The configured nodes of a forced batch                                   *)

\* The nodes that had the ORIENT_INFO attribute when the call began
PreConfigured == {n \in Nodes : "ORIENT_INFO" \in DOMAIN batch.pre.attrs[n]}

\* C30: during orient_with_attributes with forced attributes a node that had
\* orient attributes when the call began keeps every value it had, and
\* add_orient_attributes is called only for nodes that had no ORIENT_INFO.
ForcedKeepsConfiguration ==
    (batch.active /\ batch.force) =>
        /\ \A n \in PreConfigured :
              \A k \in DOMAIN batch.pre.attrs[n] : /\ k \in DOMAIN attrs[n]
                                                  /\ attrs[n][k] = batch.pre.attrs[n][k]
        /\ batch.added \cap PreConfigured = {}

\* a forced call has returned that gave the defaults to one node and went by run()
\* over a node configured inactive, which is still inactive
ForcedKeepsConfigurationWitness ==
    /\ batch.status = "returned" /\ batch.force
    /\ batch.added # {}
    /\ \E i \in DOMAIN batch.ran :
          /\ batch.ran[i][1] \in PreConfigured
          /\ batch.pre.attrs[batch.ran[i][1]]["active"] = 0
          /\ attrs[batch.ran[i][1]]["active"] = 0
          /\ batch.ran[i][2] = "skipped"

====
